---- MODULE Spec2Model ----
(***************************************************************************)
(* Model of aiida.common.classes.folder.Folder: a folder handle confined   *)
(* to a folder_limit, layered over a POSIX filesystem with directories,    *)
(* regular files and symbolic links.                                       *)
(*                                                                         *)
(* A path string is a sequence of one-character strings, so that the       *)
(* character-wise os.path functions the class relies on (commonprefix,     *)
(* join, split) are computed as Python computes them.  A filesystem key is *)
(* the sequence of the names leading from the root to an entry.            *)
(***************************************************************************)
EXTENDS Integers, Sequences, FiniteSets, TLC

VARIABLES fs, folders, last, nops

vars == <<fs, folders, last, nops>>

\* None stands for an argument left out, or for no value
None == <<"None">>

\* last records the latest call: the method, the object it was made on, the
\* arguments, the error raised ("" for none) and the value returned
NoCall == [op |-> "", self |-> None, a1 |-> None, a2 |-> None, a3 |-> None,
           err |-> "", ret |-> None]

Call(op, self, a1, a2, a3, err, ret) ==
    [op |-> op, self |-> self, a1 |-> a1, a2 |-> a2, a3 |-> a3,
     err |-> err, ret |-> ret]

----------------------------------------------------------------------------
(* Bounds of the model *)

\* number of calls made by the client program
MaxOps == 2
\* number of Folder objects the client program keeps
MaxFolders == 2
\* symbolic links one path resolution follows before it fails with ELOOP
MaxLinkHops == 2
\* names in the longest path a system call takes (longer: ENAMETOOLONG)
MaxPathNames == 4

----------------------------------------------------------------------------
(* Path strings: posixpath *)

Slash == "/"

\* str.startswith('/')
IsAbs(p) == Len(p) > 0 /\ p[1] = Slash

EndsWithSlash(p) == Len(p) > 0 /\ p[Len(p)] = Slash

\* posixpath.join(a, b)
join(a, b) ==
    IF IsAbs(b) THEN b
    ELSE IF a = <<>> \/ EndsWithSlash(a) THEN a \o b
    ELSE a \o <<Slash>> \o b

\* p.rfind('/') + 1: the length of the part of p up to its last slash
RFindSlash(p) ==
    LET S == {i \in 1..Len(p) : p[i] = Slash}
    IN  IF S = {} THEN 0 ELSE CHOOSE i \in S : \A j \in S : j <= i

AllSlashes(p) == \A i \in 1..Len(p) : p[i] = Slash

\* str.rstrip('/')
RStripSlash(p) ==
    LET S == {i \in 1..Len(p) : p[i] # Slash}
    IN  IF S = {} THEN <<>>
        ELSE SubSeq(p, 1, CHOOSE i \in S : \A j \in S : j <= i)

\* posixpath.split(p) -> <<head, tail>>
HeadTail(head, tail) ==
    <<IF head # <<>> /\ ~AllSlashes(head) THEN RStripSlash(head) ELSE head, tail>>

SplitAt(p, i) == HeadTail(SubSeq(p, 1, i), SubSeq(p, i + 1, Len(p)))

split(p) == SplitAt(p, RFindSlash(p))

\* posixpath.basename(p)
basename(p) == SubSeq(p, RFindSlash(p) + 1, Len(p))

\* posixpath.dirname(p)
dirname(p) == split(p)[1]

\* genericpath.commonprefix([x, y]): the longest common leading run of
\* characters of the two strings
commonprefix(x, y) ==
    LET n == IF Len(x) < Len(y) THEN Len(x) ELSE Len(y)
        D == {i \in 1..n : x[i] # y[i]}
        k == IF D = {} THEN n ELSE (CHOOSE i \in D : \A j \in D : i <= j) - 1
    IN  SubSeq(x, 1, k)

\* str.split('/'): the pieces of p between its slashes
RECURSIVE Pieces(_)
Pieces(p) ==
    LET S == {i \in 1..Len(p) : p[i] = Slash}
    IN  IF S = {} THEN <<p>>
        ELSE LET i == CHOOSE i \in S : \A j \in S : i <= j
             IN  <<SubSeq(p, 1, i - 1)>> \o Pieces(SubSeq(p, i + 1, Len(p)))

CurDir == <<".">>
ParDir == <<".", ".">>

\* the path string of a key: '/' + '/'.join(names)
RECURSIVE KeyStr(_)
KeyStr(k) ==
    IF k = <<>> THEN <<Slash>>
    ELSE IF Len(k) = 1 THEN <<Slash>> \o k[1]
    ELSE KeyStr(SubSeq(k, 1, Len(k) - 1)) \o <<Slash>> \o k[Len(k)]

Parent(k) == IF k = <<>> THEN <<>> ELSE SubSeq(k, 1, Len(k) - 1)

IsPrefix(x, y) == Len(x) <= Len(y) /\ SubSeq(y, 1, Len(x)) = x

\* posixpath.normpath on the names of an absolute path: '', '.' dropped,
\* '..' removes the name before it (the root is its own parent)
RECURSIVE LexNorm(_,_)
LexNorm(acc, names) ==
    IF names = <<>> THEN acc
    ELSE LET n == Head(names)
         IN  IF n = <<>> \/ n = CurDir THEN LexNorm(acc, Tail(names))
             ELSE IF n = ParDir THEN LexNorm(Parent(acc), Tail(names))
             ELSE LexNorm(Append(acc, n), Tail(names))

\* posixpath.abspath(p) for an absolute p
abspath(p) == KeyStr(LexNorm(<<>>, Pieces(p)))

----------------------------------------------------------------------------
(* The filesystem: a function from keys to nodes; the root is a directory. *)
(* A call that can fail returns [fs, err]: the filesystem it leaves and the *)
(* error it raises ("" for none).                                           *)

DirNode     == [kind |-> "dir",  data |-> 0, target |-> <<>>]
FileNode(d) == [kind |-> "file", data |-> d, target |-> <<>>]
LinkNode(t) == [kind |-> "link", data |-> 0, target |-> t]

Root == <<>>

Ok(F)      == [fs |-> F, err |-> ""]
Fail(F, e) == [fs |-> F, err |-> e]

Put(F, k, node) == [x \in DOMAIN F \cup {k} |-> IF x = k THEN node ELSE F[x]]

\* the filesystem without the subtree at k
Prune(F, k) == [x \in {y \in DOMAIN F : ~IsPrefix(k, y)} |-> F[x]]

\* the entries of directory k
Children(F, k) == {x \in DOMAIN F : x # Root /\ Parent(x) = k}

\* path resolution of the kernel: walks the names of a path from base,
\* following the links met on the way (the last one only when follow is set).
\* st = "found": key is the entry; "missing": every name but the last exists
\* and key is where the entry would be created; "error": no such place.
RECURSIVE Walk(_,_,_,_,_)
Walk(F, base, names, follow, hops) ==
    IF names = <<>> THEN [st |-> "found", key |-> base]
    ELSE IF F[base].kind # "dir" THEN [st |-> "error", key |-> base]
    ELSE LET n    == Head(names)
             rest == Tail(names)
         IN  IF n = <<>> \/ n = CurDir THEN Walk(F, base, rest, follow, hops)
             ELSE IF n = ParDir THEN Walk(F, Parent(base), rest, follow, hops)
             ELSE LET child == Append(base, n)
                  IN  IF child \notin DOMAIN F
                      THEN IF rest = <<>> THEN [st |-> "missing", key |-> child]
                           ELSE [st |-> "error", key |-> child]
                      ELSE IF F[child].kind = "link" /\ (rest # <<>> \/ follow)
                      THEN IF hops = 0 THEN [st |-> "error", key |-> child]
                           ELSE LET t == F[child].target
                                IN  Walk(F, IF IsAbs(t) THEN Root ELSE base,
                                         Pieces(t) \o rest, follow, hops - 1)
                      ELSE Walk(F, child, rest, follow, hops)

\* the path resolution a system call makes of p, taken from the root directory
\* when p is relative
Resolve(F, p, follow) ==
    IF Len(LexNorm(Root, Pieces(p))) > MaxPathNames
    THEN [st |-> "error", key |-> Root]
    ELSE Walk(F, Root, Pieces(p), follow, MaxLinkHops)

\* os.stat(p) / os.lstat(p)
Stat(F, p)  == Resolve(F, p, TRUE)
LStat(F, p) == Resolve(F, p, FALSE)

\* the kind of the entry a resolution found
KindAt(F, r) == IF r.st = "found" THEN F[r.key].kind ELSE "none"

\* os.path.exists, os.path.isdir, os.path.islink, os.readlink
PathExists(F, p) == Stat(F, p).st = "found"
isdir(F, p)      == KindAt(F, Stat(F, p)) = "dir"
islink(F, p)     == KindAt(F, LStat(F, p)) = "link"
readlink(F, p)   == F[LStat(F, p).key].target

\* os.path.samefile, with shutil._samefile's "False on OSError"
SameEntry(ra, rb) == ra.st = "found" /\ rb.st = "found" /\ ra.key = rb.key
samefile(F, x, y) == SameEntry(Stat(F, x), Stat(F, y))

\* os.mkdir(p), os.symlink(target, p): a new node where p resolves to
NewNode(F, r, node) ==
    IF r.st = "found" THEN Fail(F, "EEXIST")
    ELSE IF r.st = "error" THEN Fail(F, "ENOENT")
    ELSE Ok(Put(F, r.key, node))

mkdir(F, p) == NewNode(F, LStat(F, p), DirNode)

symlink(F, target, p) == NewNode(F, LStat(F, p), LinkNode(target))

\* os.makedirs(name)
RECURSIVE makedirs(_,_)
MakedirsLeaf(r, name, tail) ==
    IF r.err \notin {"", "EEXIST"} THEN r
    ELSE IF tail = CurDir THEN Ok(r.fs)
    ELSE mkdir(r.fs, name)

MakedirsHeadTail(F, name, ht) ==
    IF ht[1] # <<>> /\ ht[2] # <<>> /\ ~PathExists(F, ht[1])
    THEN MakedirsLeaf(makedirs(F, ht[1]), name, ht[2])
    ELSE mkdir(F, name)

SplitAgain(ht) == IF ht[2] = <<>> THEN split(ht[1]) ELSE ht

makedirs(F, name) == MakedirsHeadTail(F, name, SplitAgain(split(name)))

\* shutil.rmtree(p): refuses a symbolic link, lists the directory, removes
\* every entry below it (links are removed, not followed), then the directory
RmtreeAt(F, r) ==
    IF r.st # "found" THEN Fail(F, "ENOENT")
    ELSE IF F[r.key].kind = "link" THEN Fail(F, "OSError")
    ELSE IF F[r.key].kind # "dir" THEN Fail(F, "ENOTDIR")
    ELSE IF r.key = Root THEN Fail([x \in {Root} |-> DirNode], "EBUSY")
    ELSE Ok(Prune(F, r.key))

rmtree(F, p) == RmtreeAt(F, LStat(F, p))

\* shutil.copyfile(src, dst): open(src, 'rb') then open(dst, 'wb'), which
\* follows a link at dst and creates the file when it is missing
CopyfileAt(F, rs, rd) ==
    IF SameEntry(rs, rd) THEN Fail(F, "Error")
    ELSE IF rs.st # "found" THEN Fail(F, "ENOENT")
    ELSE IF F[rs.key].kind # "file" THEN Fail(F, "EISDIR")
    ELSE IF rd.st = "error" THEN Fail(F, "ENOENT")
    ELSE IF rd.st = "found" /\ F[rd.key].kind # "file" THEN Fail(F, "EISDIR")
    ELSE Ok(Put(F, rd.key, FileNode(F[rs.key].data)))

copyfile(F, src, dst) == CopyfileAt(F, Stat(F, src), Stat(F, dst))

\* shutil.copy2(src, dst)
copy2(F, src, dst) ==
    copyfile(F, src, IF isdir(F, dst) THEN join(dst, basename(src)) ELSE dst)

\* os.unlink(p)
UnlinkAt(F, r) ==
    IF r.st # "found" THEN Fail(F, "ENOENT")
    ELSE IF F[r.key].kind = "dir" THEN Fail(F, "EISDIR")
    ELSE Ok(Prune(F, r.key))

unlink(F, p) == UnlinkAt(F, LStat(F, p))

\* os.rename(src, dst) inside one filesystem
RenameAt(F, rs, rd) ==
    IF rs.st # "found" THEN Fail(F, "ENOENT")
    ELSE IF rd.st = "error" THEN Fail(F, "ENOENT")
    ELSE IF rs.key = rd.key THEN Ok(F)
    ELSE IF rs.key = Root \/ rd.key = Root THEN Fail(F, "EBUSY")
    ELSE IF IsPrefix(rs.key, rd.key) THEN Fail(F, "EINVAL")
    ELSE IF rd.st = "found" /\ F[rd.key].kind = "dir" /\ F[rs.key].kind # "dir"
         THEN Fail(F, "EISDIR")
    ELSE IF rd.st = "found" /\ F[rd.key].kind = "dir" /\ Children(F, rd.key) # {}
         THEN Fail(F, "ENOTEMPTY")
    ELSE IF rd.st = "found" /\ F[rd.key].kind # "dir" /\ F[rs.key].kind = "dir"
         THEN Fail(F, "ENOTDIR")
    ELSE LET moved == {x \in DOMAIN F : IsPrefix(rs.key, x)}
             kept  == {x \in DOMAIN F : ~IsPrefix(rs.key, x) /\ ~IsPrefix(rd.key, x)}
         IN  Ok([y \in kept \cup {rd.key \o SubSeq(x, Len(rs.key) + 1, Len(x)) : x \in moved} |->
                    IF y \in kept THEN F[y]
                    ELSE F[rs.key \o SubSeq(y, Len(rd.key) + 1, Len(y))]])

rename(F, src, dst) == RenameAt(F, LStat(F, src), LStat(F, dst))

\* os.listdir as a sequence, in the order the filesystem lists the names
RECURSIVE ListOf(_)
ListOf(S) ==
    IF S = {} THEN <<>>
    ELSE LET x == CHOOSE y \in S : TRUE IN <<x[Len(x)]>> \o ListOf(S \ {x})

\* shutil.copytree(src, dst, symlinks): lists src, makes dst and its missing
\* ancestors, copies the entries one by one; the errors of the entries are
\* collected and raised at the end, the entries copied so far stay
RECURSIVE copytree(_,_,_,_)
RECURSIVE CopyEntries(_,_,_,_,_,_)

CopyEntry(F, srcname, dstname, symlinks) ==
    IF symlinks /\ islink(F, srcname) THEN symlink(F, readlink(F, srcname), dstname)
    ELSE IF isdir(F, srcname) THEN copytree(F, srcname, dstname, symlinks)
    ELSE copy2(F, srcname, dstname)

CopyRest(r, src, dst, symlinks, names, err) ==
    CopyEntries(r.fs, src, dst, symlinks, names, IF r.err # "" THEN "Error" ELSE err)

CopyEntries(F, src, dst, symlinks, names, err) ==
    IF names = <<>> THEN [fs |-> F, err |-> err]
    ELSE CopyRest(CopyEntry(F, join(src, Head(names)), join(dst, Head(names)), symlinks),
                  src, dst, symlinks, Tail(names), err)

CopytreeInto(m, src, dst, symlinks, names) ==
    IF m.err # "" THEN m ELSE CopyEntries(m.fs, src, dst, symlinks, names, "")

CopytreeAt(F, src, dst, symlinks, r) ==
    IF r.st # "found" THEN Fail(F, "ENOENT")
    ELSE IF F[r.key].kind # "dir" THEN Fail(F, "ENOTDIR")
    ELSE CopytreeInto(makedirs(F, dst), src, dst, symlinks, ListOf(Children(F, r.key)))

copytree(F, src, dst, symlinks) == CopytreeAt(F, src, dst, symlinks, Stat(F, src))

\* shutil._destinsrc(src, dst)
WithSlash(p) == IF EndsWithSlash(p) THEN p ELSE p \o <<Slash>>

destinsrc(src, dst) == IsPrefix(WithSlash(abspath(src)), WithSlash(abspath(dst)))

\* shutil.move(src, dst)
RmtreeAfter(r, src) == IF r.err # "" THEN r ELSE rmtree(r.fs, src)

UnlinkAfter(r, src) == IF r.err # "" THEN r ELSE unlink(r.fs, src)

MoveRenamed(F, src, dst, real_dst, r) ==
    IF r.err = "" THEN r
    ELSE IF isdir(F, src)
    THEN IF destinsrc(src, dst) THEN Fail(F, "Error")
         ELSE RmtreeAfter(copytree(F, src, real_dst, TRUE), src)
    ELSE UnlinkAfter(copy2(F, src, real_dst), src)

MoveTo(F, src, dst, into, real_dst) ==
    IF into /\ samefile(F, src, dst) THEN rename(F, src, dst)
    ELSE IF into /\ PathExists(F, real_dst) THEN Fail(F, "Error")
    ELSE MoveRenamed(F, src, dst, real_dst, rename(F, src, real_dst))

MoveInto(F, src, dst, into) ==
    MoveTo(F, src, dst, into,
           IF into THEN join(dst, basename(RStripSlash(src))) ELSE dst)

move(F, src, dst) == MoveInto(F, src, dst, isdir(F, dst))

\* posixpath._joinrealpath(path, rest, seen): path is the resolved part, rest
\* the names still to resolve, seen the links being resolved.  ok is false
\* when a link loop was met; the names left are then appended unresolved.
RECURSIVE joinrealpath(_,_,_,_)
joinrealpath(F, path, rest, seen) ==
    IF rest = <<>> THEN [path |-> path, ok |-> TRUE]
    ELSE LET name == Head(rest)
             rr   == Tail(rest)
         IN  IF name = <<>> \/ name = CurDir THEN joinrealpath(F, path, rr, seen)
             ELSE IF name = ParDir THEN joinrealpath(F, Parent(path), rr, seen)
             ELSE LET newpath == Append(path, name)
                  IN  IF ~(newpath \in DOMAIN F /\ F[newpath].kind = "link")
                      THEN joinrealpath(F, newpath, rr, seen)
                      ELSE IF newpath \in seen
                      THEN [path |-> newpath \o rr, ok |-> FALSE]
                      ELSE LET t == F[newpath].target
                               r == joinrealpath(F, IF IsAbs(t) THEN Root ELSE path,
                                                 Pieces(t), seen \cup {newpath})
                           IN  IF ~r.ok THEN [path |-> r.path \o rr, ok |-> FALSE]
                               ELSE joinrealpath(F, r.path, rr, seen)

\* posixpath.realpath(p) for an absolute p: the canonical path string
realpath(F, p) == KeyStr(LexNorm(Root, joinrealpath(F, Root, Pieces(p), {}).path))

----------------------------------------------------------------------------
(* class Folder *)

\* Folder.__init__(abspath, folder_limit): the fields of the Folder made, and
\* the error raised ("" for none)
InitCheck(F, ap, fl) ==
    IF commonprefix(ap, fl) # fl
    THEN [err |-> "ValueError", abspath |-> ap, folder_limit |-> fl]
    ELSE [err |-> "", abspath |-> realpath(F, ap), folder_limit |-> fl]

InitLimit(F, ap, lim) == InitCheck(F, ap, realpath(F, IF lim = None THEN ap ELSE lim))

FolderInit(F, path, lim) == InitLimit(F, realpath(F, path), lim)

Obj(r) == [abspath |-> r.abspath, folder_limit |-> r.folder_limit]

\* Folder.exists()
exists(F, self) == PathExists(F, self.abspath)

\* create() without the test of exists()
create_unguarded(F, self) == makedirs(F, self.abspath)

\* Folder.create()
create(F, self) == IF ~exists(F, self) THEN makedirs(F, self.abspath) ELSE Ok(F)

\* Folder.erase(create_empty_folder)
EraseThen(r, self, create_empty_folder) ==
    IF r.err # "" THEN r
    ELSE IF create_empty_folder THEN create(r.fs, self)
    ELSE r

\* erase() without the test of exists()
erase_unguarded(F, self, create_empty_folder) ==
    EraseThen(rmtree(F, self.abspath), self, create_empty_folder)

erase(F, self, create_empty_folder) ==
    EraseThen(IF exists(F, self) THEN rmtree(F, self.abspath) ELSE Ok(F),
              self, create_empty_folder)

\* Folder.get_filename(filename)
CheckFilename(self, filename, dest_abs_path) ==
    IF split(dest_abs_path) # <<self.abspath, filename>>
    THEN [err |-> "ValueError", path |-> <<>>]
    ELSE [err |-> "", path |-> dest_abs_path]

get_filename(self, filename) ==
    CheckFilename(self, filename, join(self.abspath, filename))

\* Folder.get_subfolder(subfolder, create)
SubCreated(r, new_folder) == [fs |-> r.fs, err |-> r.err, new |-> new_folder]

SubMade(F, new_folder, cr) ==
    IF new_folder.err # "" THEN [fs |-> F, err |-> new_folder.err, new |-> new_folder]
    ELSE IF cr THEN SubCreated(create(F, Obj(new_folder)), new_folder)
    ELSE [fs |-> F, err |-> "", new |-> new_folder]

get_subfolder(F, self, subfolder, cr) ==
    SubMade(F, FolderInit(F, realpath(F, join(self.abspath, subfolder)),
                          self.folder_limit), cr)

\* Folder.create_symlink(src, name)
SymlinkAt(F, src, g) == IF g.err # "" THEN Fail(F, g.err) ELSE symlink(F, src, g.path)

\* create_symlink() with the arguments of os.symlink swapped
create_symlink_swapped(F, self, src, name) ==
    IF get_filename(self, name).err # ""
    THEN Fail(F, get_filename(self, name).err)
    ELSE symlink(F, get_filename(self, name).path, src)

create_symlink(F, self, src, name) == SymlinkAt(F, src, get_filename(self, name))

\* Folder.insert_file(src, dest_name)
CopyfileTo(F, src, g) == IF g.err # "" THEN Fail(F, g.err) ELSE copyfile(F, src, g.path)

insert_file(F, self, src, dest_name) ==
    CopyfileTo(F, src,
               get_filename(self, IF dest_name = None THEN basename(src) ELSE dest_name))

\* Folder.replace_with_folder(srcdir, move, overwrite)
ReplaceFill(r, self, srcdir, mv) ==
    IF r.err # "" THEN r
    ELSE IF mv THEN move(r.fs, srcdir, self.abspath)
    ELSE copytree(r.fs, srcdir, self.abspath, FALSE)

ReplaceParent(r, self, srcdir, mv, pardir) ==
    IF r.err # "" THEN r
    ELSE ReplaceFill(IF ~PathExists(r.fs, pardir) THEN makedirs(r.fs, pardir) ELSE r,
                     self, srcdir, mv)

\* replace_with_folder() without the test of exists() when overwrite is false
replace_with_folder_unchecked(F, self, srcdir, mv, overwrite) ==
    ReplaceParent(IF overwrite THEN erase(F, self, FALSE) ELSE Ok(F),
                  self, srcdir, mv, dirname(self.abspath))

replace_with_folder(F, self, srcdir, mv, overwrite) ==
    ReplaceParent(IF overwrite THEN erase(F, self, FALSE)
                  ELSE IF exists(F, self) THEN Fail(F, "IOError")
                  ELSE Ok(F),
                  self, srcdir, mv, dirname(self.abspath))

----------------------------------------------------------------------------
(* The client program: a filesystem, the Folder objects it holds, and the   *)
(* calls it makes on them                                                   *)

a  == <<"a">>
b  == <<"b">>
b2 == <<"b", "2">>
c  == <<"c">>
f  == <<"f">>
l  == <<"l">>
s  == <<"s">>

\* the relative path string of a sequence of names: 'x/y/z'
Rel(names) == Tail(KeyStr(names))

\* the filesystems the program starts on: an empty one, and three where /a/s
\* is a file outside /a/b
FsOf(dirs, files1, files2) ==
    [k \in {Root} \cup dirs \cup files1 \cup files2 |->
        IF k \in files1 THEN FileNode(1)
        ELSE IF k \in files2 THEN FileNode(2)
        ELSE DirNode]

InitFS ==
    { FsOf({}, {}, {}),
      FsOf({<<a>>}, {<<a, s>>}, {}),
      FsOf({<<a>>, <<a, b>>, <<a, b, c>>}, {<<a, s>>, <<a, b, c, f>>}, {<<a, b, f>>}),
      FsOf({<<a>>, <<a, b>>, <<a, b2>>}, {<<a, s>>, <<a, b2, f>>}, {<<a, b, f>>}) }

\* the arguments the program passes
PathArgs    == {KeyStr(<<a, b>>), KeyStr(<<a, b2, c>>), KeyStr(<<a, b, f>>)}
LimitArgs   == {None, KeyStr(<<a, b>>)}
SubArgs     == {Rel(<<c>>), Rel(<<ParDir, b2>>), Rel(<<ParDir>>), Rel(<<c, ParDir, l>>)}
NameArgs    == {<<>>, CurDir, ParDir, f, l, Rel(<<c, f>>), KeyStr(<<a, s>>)}
LinkNames   == {l, f, ParDir}
TargetArgs  == {KeyStr(<<a, s>>), Rel(<<ParDir, b2>>)}
SrcFileArgs == {KeyStr(<<a, s>>), KeyStr(<<a, b, f>>)}
DestArgs    == {None, l, ParDir}
SrcDirArgs  == {KeyStr(<<a, b, c>>), KeyStr(<<a, b2>>), KeyStr(<<a, b>>)}

\* the program keeps a Folder it was returned while it has room for it
Keep(r) ==
    IF r.err = "" /\ (Obj(r) \in folders \/ Cardinality(folders) < MaxFolders)
    THEN folders' = folders \cup {Obj(r)}
    ELSE UNCHANGED folders

\* a call that returned r = [fs, err]
Returned(op, self, a1, a2, a3, r) ==
    /\ last' = Call(op, self, a1, a2, a3, r.err, None)
    /\ fs' = r.fs
    /\ nops' = nops + 1
    /\ UNCHANGED folders

Init ==
    /\ fs \in InitFS
    /\ folders = {Obj(FolderInit(fs, KeyStr(<<a, b>>), None))}
    /\ last = NoCall
    /\ nops = 0

\* Folder(path, lim)
Constructed(path, lim, r) ==
    /\ last' = Call("Folder", None, path, lim, None, r.err, Obj(r))
    /\ Keep(r)
    /\ nops' = nops + 1
    /\ UNCHANGED fs

NewFolder(path, lim) ==
    /\ nops < MaxOps
    /\ Constructed(path, lim, FolderInit(fs, path, lim))

\* self.get_subfolder(subfolder, create)
Derived(self, subfolder, cr, r) ==
    /\ last' = Call("get_subfolder", self, subfolder, cr, None, r.err, Obj(r.new))
    /\ fs' = r.fs
    /\ Keep(r.new)
    /\ nops' = nops + 1

GetSubfolder(self, subfolder, cr) ==
    /\ nops < MaxOps
    /\ Derived(self, subfolder, cr, get_subfolder(fs, self, subfolder, cr))

\* self.get_filename(filename)
Resolved(self, filename, r) ==
    /\ last' = Call("get_filename", self, filename, None, None, r.err, r.path)
    /\ nops' = nops + 1
    /\ UNCHANGED <<fs, folders>>

GetFilename(self, filename) ==
    /\ nops < MaxOps
    /\ Resolved(self, filename, get_filename(self, filename))

\* self.create_symlink(src, name)
CreateSymlink(self, src, name) ==
    /\ nops < MaxOps
    /\ Returned("create_symlink", self, src, name, None,
                create_symlink(fs, self, src, name))

\* self.insert_file(src, dest_name)
InsertFile(self, src, dest_name) ==
    /\ nops < MaxOps
    /\ Returned("insert_file", self, src, dest_name, None,
                insert_file(fs, self, src, dest_name))

\* self.erase(create_empty_folder)
Erase(self, create_empty_folder) ==
    /\ nops < MaxOps
    /\ Returned("erase", self, create_empty_folder, None, None,
                erase(fs, self, create_empty_folder))

\* self.create()
Create(self) ==
    /\ nops < MaxOps
    /\ Returned("create", self, None, None, None, create(fs, self))

\* self.replace_with_folder(srcdir, move, overwrite)
ReplaceWithFolder(self, srcdir, mv, overwrite) ==
    /\ nops < MaxOps
    /\ Returned("replace_with_folder", self, srcdir, mv, overwrite,
                replace_with_folder(fs, self, srcdir, mv, overwrite))

Next ==
    \/ \E p \in PathArgs, lim \in LimitArgs : NewFolder(p, lim)
    \/ \E self \in folders, sub \in SubArgs, cr \in BOOLEAN : GetSubfolder(self, sub, cr)
    \/ \E self \in folders, n \in NameArgs : GetFilename(self, n)
    \/ \E self \in folders, t \in TargetArgs, n \in LinkNames : CreateSymlink(self, t, n)
    \/ \E self \in folders, src \in SrcFileArgs, d \in DestArgs : InsertFile(self, src, d)
    \/ \E self \in folders, e \in BOOLEAN : Erase(self, e)
    \/ \E self \in folders : Create(self)
    \/ \E self \in folders, src \in SrcDirArgs, mv \in BOOLEAN, ow \in BOOLEAN :
           ReplaceWithFolder(self, src, mv, ow)

Spec == Init /\ [][Next]_vars

----------------------------------------------------------------------------
(* Properties *)

\* the names of a canonical path string
Key(p) == LexNorm(Root, Pieces(p))

\* containment by path segments: p is lim or a descendant of lim
Within(p, lim) == IsPrefix(Key(lim), Key(p))

\* a single well-formed path component
WellFormedName(n) ==
    /\ n # <<>>
    /\ n # CurDir
    /\ n # ParDir
    /\ \A i \in 1..Len(n) : n[i] # Slash

\* the entries that differ between two filesystems
Changed(F, G) ==
    {k \in DOMAIN F \cup DOMAIN G : k \notin DOMAIN F \/ k \notin DOMAIN G \/ F[k] # G[k]}

\* the tree below key k, by the names relative to k
Subtree(F, k) ==
    [x \in {SubSeq(y, Len(k) + 1, Len(y)) : y \in {z \in DOMAIN F : IsPrefix(k, z)}} |->
        F[k \o x]]

\* C1: a construction whose canonical path is neither the canonical boundary
\* nor a descendant of it by path segments fails with ValueError.
C1_ConstructionRejectsOutside ==
    (last.op = "Folder" /\ ~Within(last.ret.abspath, last.ret.folder_limit))
        => last.err = "ValueError"

\* C2: a Folder returned by get_subfolder of a Folder that is within its
\* folder_limit has the same folder_limit and is within it by path segments.
C2_SubfolderStaysWithin ==
    (last.op = "get_subfolder" /\ last.err = ""
        /\ Within(last.self.abspath, last.self.folder_limit))
        => /\ last.ret.folder_limit = last.self.folder_limit
           /\ Within(last.ret.abspath, last.ret.folder_limit)

\* C3: get_subfolder fails with ValueError and changes nothing on disk when
\* the resolved location is outside folder_limit by path segments, and
\* succeeds when it is inside.
C3_SubfolderDecidedByLocation ==
    [][last'.op = "get_subfolder" =>
        IF Within(realpath(fs, join(last'.self.abspath, last'.a1)),
                  last'.self.folder_limit)
        THEN last'.err = ""
        ELSE last'.err = "ValueError" /\ fs' = fs]_vars

\* C4: get_filename returns abspath joined with the name for a single
\* well-formed component, and fails with ValueError for a name that is empty,
\* holds a separator, or is '.' or '..'.
C4_FilenameValidated ==
    last.op = "get_filename" =>
        IF WellFormedName(last.a1)
        THEN last.err = "" /\ last.ret = last.self.abspath \o <<Slash>> \o last.a1
        ELSE last.err = "ValueError"

\* C5: every entry an insert_file or create_symlink call creates or changes
\* is a direct child of the Folder's abspath.
C5_SingleFileOpsStayInside ==
    [][last'.op \in {"insert_file", "create_symlink"} =>
        \A k \in Changed(fs, fs') :
            k # Root /\ Parent(k) = Key(last'.self.abspath)]_vars

\* C6: replace_with_folder with overwrite=False on a folder that exists
\* raises IOError and leaves the filesystem as it was, for move true or false.
C6_ReplaceRefusesExisting ==
    [][(last'.op = "replace_with_folder" /\ last'.a3 = FALSE /\ exists(fs, last'.self))
        => (last'.err = "IOError" /\ fs' = fs)]_vars

\* C6 witness: a move onto an existing folder was refused.
C6_Witness ==
    /\ last.op = "replace_with_folder"
    /\ last.a2 = TRUE
    /\ last.a3 = FALSE
    /\ last.err = "IOError"
    /\ isdir(fs, last.a1)
    /\ Children(fs, Key(last.self.abspath)) # {}

\* C7: with move false the tree at srcdir is the same after the call as
\* before; with move true and no error srcdir is gone and abspath holds the
\* tree srcdir held.
C7_CopyLeavesSourceMoveRemovesIt ==
    [][(last'.op = "replace_with_folder" /\ isdir(fs, last'.a1)) =>
        /\ last'.a2 = FALSE =>
              /\ isdir(fs', last'.a1)
              /\ Subtree(fs', Stat(fs', last'.a1).key) = Subtree(fs, Stat(fs, last'.a1).key)
        /\ (last'.a2 = TRUE /\ last'.err = "") =>
              /\ ~PathExists(fs', last'.a1)
              /\ Subtree(fs', Key(last'.self.abspath)) = Subtree(fs, Stat(fs, last'.a1).key)]_vars

\* C8: a create() that raises no error leaves the folder existing, and a
\* second create() then raises no error and changes nothing; when the folder
\* existed the first call changed nothing, otherwise it made the directory
\* and its missing ancestors, and nothing else.
C8_CreateIdempotent ==
    [][(last'.op = "create" /\ last'.err = "") =>
        /\ exists(fs', last'.self)
        /\ create(fs', last'.self) = Ok(fs')
        /\ exists(fs, last'.self) => fs' = fs
        /\ ~exists(fs, last'.self) =>
              /\ isdir(fs', last'.self.abspath)
              /\ \A k \in Changed(fs, fs') :
                    /\ k \notin DOMAIN fs
                    /\ fs'[k] = DirNode
                    /\ IsPrefix(k, Stat(fs', last'.self.abspath).key)]_vars

\* C8 witness: create() made /a/b and its missing ancestor /a.
C8_Witness ==
    /\ last.op = "create"
    /\ last.err = ""
    /\ nops = 1
    /\ last.self.abspath = KeyStr(<<a, b>>)
    /\ DOMAIN fs = {Root, <<a>>, <<a, b>>}
    /\ fs[<<a, b>>] = DirNode

C10_SymlinkOriginal ==
    [][(last'.op = "create_symlink" /\ WellFormedName(last'.a2)) =>
        IF LStat(fs, join(last'.self.abspath, last'.a2)).st = "found"
        THEN last'.err = "EEXIST" /\ fs' = fs
        ELSE /\ last'.err = ""
             /\ fs' = Put(fs, Append(Key(last'.self.abspath), last'.a2),
                          LinkNode(last'.a1))]_vars

\* C10 amended: create_symlink with a valid name fails with EEXIST and
\* changes nothing when abspath/name is occupied; when it is free and abspath
\* is an existing directory it creates there a link with the target as given
\* and changes nothing else; when abspath is no existing directory it raises
\* and changes nothing.
C10_SymlinkAmended ==
    [][(last'.op = "create_symlink" /\ WellFormedName(last'.a2)) =>
        CASE LStat(fs, join(last'.self.abspath, last'.a2)).st = "found" ->
                last'.err = "EEXIST" /\ fs' = fs
          [] LStat(fs, join(last'.self.abspath, last'.a2)).st = "missing" ->
                /\ isdir(fs, last'.self.abspath)
                /\ last'.err = ""
                /\ fs' = Put(fs, Append(Stat(fs, last'.self.abspath).key, last'.a2),
                             LinkNode(last'.a1))
          [] OTHER ->
                /\ ~isdir(fs, last'.self.abspath)
                /\ last'.err # ""
                /\ fs' = fs]_vars

\* C10 witness: a second create_symlink on the name of an existing link was
\* refused, and the link kept the target it had.
C10_Witness ==
    /\ last.op = "create_symlink"
    /\ last.err = "EEXIST"
    /\ Append(Key(last.self.abspath), last.a2) \in DOMAIN fs
    /\ fs[Append(Key(last.self.abspath), last.a2)].kind = "link"
    /\ fs[Append(Key(last.self.abspath), last.a2)].target # last.a1

====
